---------------------------- MODULE Spec2Model ----------------------------
(***************************************************************************)
(* A model of src/main.py: a Streamlit e-commerce catalogue with reviews,  *)
(* a keyword sentiment classifier and Firestore persistence.               *)
(*                                                                         *)
(* Python strings that the code scans (review texts, keywords) are         *)
(* sequences of one-character strings.  Python None is the string "None",  *)
(* an unbound name is "unbound".  The three emoji are written by their     *)
(* code points.                                                            *)
(***************************************************************************)
EXTENDS Integers, Sequences, FiniteSets

VARIABLES
    firebase_config_env,  \* the environment's __firebase_config (line 49)
    pc,                   \* position of the module-level script
    FIREBASE_CONFIG,      \* module global, lines 38, 49, 51
    AUTH_TOKEN,           \* module global, lines 39, 55, 57
    db,                   \* module global, line 122
    USER_ID,              \* module global, line 122
    errors,               \* the messages start-up and the latest run or call displayed
    store,                \* the Firestore products collection and its reviews
    session_state,        \* st.session_state of each browser session
    call,                 \* the last call of a data operation and its result
    review_text,          \* the argument of a predict_sentiment call
    prediction            \* its result

vars == << firebase_config_env, pc, FIREBASE_CONFIG,
           AUTH_TOKEN, db, USER_ID, errors, store, session_state, call,
           review_text, prediction >>

startup_vars == << firebase_config_env, pc, FIREBASE_CONFIG, AUTH_TOKEN,
                   db, USER_ID >>

sentiment_vars == << review_text, prediction >>

(***************************************************************************)
(* Bounds                                                                  *)
(***************************************************************************)
\* the review texts classified are concatenations of at most this many fragments
MaxFragments == 3
\* the products collection holds at most this many documents
MaxProducts == 3
\* a reviews subcollection holds at most this many documents
MaxReviews == 2

(***************************************************************************)
(* 0.  predict_sentiment (lines 11-32)                                     *)
(***************************************************************************)
positive_keywords ==
    << <<"g","r","e","a","t">>,
       <<"e","x","c","e","l","l","e","n","t">>,
       <<"l","o","v","e">>,
       <<"a","m","a","z","i","n","g">>,
       <<"f","a","n","t","a","s","t","i","c">>,
       <<"b","e","s","t">>,
       <<"p","e","r","f","e","c","t">>,
       <<"a","w","e","s","o","m","e">>,
       <<"h","a","p","p","y">>,
       <<"w","o","n","d","e","r","f","u","l">> >>

negative_keywords ==
    << <<"b","a","d">>,
       <<"t","e","r","r","i","b","l","e">>,
       <<"d","i","s","a","p","p","o","i","n","t","i","n","g">>,
       <<"w","o","r","s","t">>,
       <<"a","w","f","u","l">>,
       <<"h","o","r","r","i","b","l","e">>,
       <<"p","o","o","r">>,
       <<"u","n","u","s","a","b","l","e">>,
       <<"u","n","h","a","p","p","y">>,
       <<"b","r","o","k","e">> >>

UpperCase == << "A","B","C","D","E","F","G","H","I","J","K","L","M",
                "N","O","P","Q","R","S","T","U","V","W","X","Y","Z" >>
LowerCase == << "a","b","c","d","e","f","g","h","i","j","k","l","m",
                "n","o","p","q","r","s","t","u","v","w","x","y","z" >>

\* str.lower() on one character
LowerChar(c) ==
    IF \E i \in 1..Len(UpperCase) : UpperCase[i] = c
    THEN LowerCase[CHOOSE i \in 1..Len(UpperCase) : UpperCase[i] = c]
    ELSE c

\* str.lower()
Lower(s) == [i \in 1..Len(s) |-> LowerChar(s[i])]

\* str.count(sub): the non-overlapping occurrences found scanning left to
\* right, the scan resuming after the end of each match
RECURSIVE CountFrom(_, _, _)
CountFrom(text, sub, from) ==
    IF from + Len(sub) - 1 > Len(text) THEN 0
    ELSE IF SubSeq(text, from, from + Len(sub) - 1) = sub
         THEN 1 + CountFrom(text, sub, from + Len(sub))
         ELSE CountFrom(text, sub, from + 1)

StrCount(text, sub) == CountFrom(text, sub, 1)

\* sum(text.count(word) for word in keywords)
RECURSIVE SumCounts(_, _, _)
SumCounts(text, keywords, i) ==
    IF i > Len(keywords) THEN 0
    ELSE StrCount(text, keywords[i]) + SumCounts(text, keywords, i + 1)

POSITIVE == << "positive", "U+1F60A" >>
NEGATIVE == << "negative", "U+1F61E" >>
NEUTRAL  == << "neutral",  "U+1F610" >>

\* the classifier with the margin of line 27 dropped
predict_sentiment_no_margin(text_in) ==
    IF text_in = << >> THEN NEUTRAL
    ELSE LET text == Lower(text_in)
             pos_count == SumCounts(text, positive_keywords, 1)
             neg_count == SumCounts(text, negative_keywords, 1)
         IN  IF pos_count > neg_count THEN POSITIVE
             ELSE IF neg_count > pos_count + 1 THEN NEGATIVE
             ELSE NEUTRAL

predict_sentiment(text_in) ==
    IF text_in = << >> THEN NEUTRAL
    ELSE LET text == Lower(text_in)
             pos_count == SumCounts(text, positive_keywords, 1)
             neg_count == SumCounts(text, negative_keywords, 1)
         IN  IF pos_count > neg_count + 1 THEN POSITIVE
             ELSE IF neg_count > pos_count + 1 THEN NEGATIVE
             ELSE NEUTRAL

\* the pieces the classified review texts are made of
Fragments ==
    { <<"l","o","v","e">>, <<"B","E","S","T">>, <<"b","a","d">>,
      <<"P","o","o","r">>, <<"u","n","h","a","p","p","y">>,
      <<"h","a","p","p","y">>,
      <<" ">>, <<"b","r","o","k","e">> }

RECURSIVE Concat(_)
Concat(parts) ==
    IF parts = << >> THEN << >> ELSE Head(parts) \o Concat(Tail(parts))

Texts ==
    { Concat(parts) :
        parts \in UNION { [1..n -> Fragments] : n \in 0..MaxFragments } }

(***************************************************************************)
(* 1.  Module-level start-up (lines 36-123)                                *)
(***************************************************************************)
\* __firebase_config as the environment provides it: no such global, a
\* string that is not JSON, or a JSON text
EnvConfigs == { "absent", "not json", "{}", "null",
                "{\"projectId\": \"shop\"}", "[1]" }

\* __initial_auth_token: no such global, or a token
EnvTokens == { "absent", "tok12345" }

\* firebase_admin inside initialize_firebase's try block (imports,
\* credentials.Certificate, firestore.client): it returns or it raises
LibOutcomes == { "ok", "raises" }

\* random.randint(1000, 9999), line 105: its two extremes
RandomInts == { "1000", "9999" }

CONFIG_NOT_FOUND == "Firebase config not found. Data persistence is disabled."
INIT_FAILED      == "Could not initialize Firebase/Firestore Client."

\* json.loads(__firebase_config) with the except clause of lines 50-52:
\* the value bound to FIREBASE_CONFIG and whether st.error is called
load_config(env) ==
    CASE env = "absent"   -> [value |-> "{}", error |-> TRUE]     \* NameError
      [] env = "not json" -> [value |-> "{}", error |-> TRUE]     \* JSONDecodeError
      [] env = "{}"       -> [value |-> "{}", error |-> FALSE]
      [] env = "null"     -> [value |-> "None", error |-> FALSE]
      [] env = "[1]"      -> [value |-> "list", error |-> FALSE]
      [] OTHER            -> [value |-> "dict", error |-> FALSE]

\* str(__initial_auth_token) with the except clause of lines 56-57
load_token(env) == IF env = "absent" THEN "None" ELSE env

\* Python truth value of the values above
Truthy(v) == v \notin { "None", "{}", "" }

\* initialize_firebase (lines 61-120): the tuple returned and whether the
\* except clause of line 118 displayed an error.  Line 74 tests a function
\* object, which is true, so line 75 is never taken.  The token of EnvTokens
\* has eight characters, so AUTH_TOKEN[:8] is the token.
initialize_firebase(config, token, outcome, rnd) ==
    IF ~Truthy(config)
    THEN [ret |-> << "None", "None", "None" >>, error |-> FALSE]   \* line 64
    ELSE IF outcome = "raises"       \* an import, Certificate or client() raises
              \/ config # "dict"     \* FIREBASE_CONFIG.get: AttributeError
         THEN [ret |-> << "None", "None" >>, error |-> TRUE]       \* line 120
         ELSE LET user_id == IF Truthy(token) THEN "auth_" \o token
                             ELSE "anonymous_" \o rnd
              IN  [ret |-> << "client", user_id >>, error |-> FALSE]

\* lines 48-57
LoadConfig ==
    /\ pc = "load_config"
    /\ LET c == load_config(firebase_config_env)
       IN  /\ FIREBASE_CONFIG' = c.value
           /\ errors' = IF c.error THEN errors \cup {CONFIG_NOT_FOUND} ELSE errors
    /\ \E auth_token_env \in EnvTokens :
         AUTH_TOKEN' = load_token(auth_token_env)
    /\ pc' = "init_firebase"
    /\ UNCHANGED << firebase_config_env, db, USER_ID, store, session_state,
                    call, sentiment_vars >>

\* line 122: db, USER_ID = initialize_firebase().  Unpacking a tuple that
\* does not hold two values raises ValueError at module level, which ends the
\* script with db and USER_ID unbound.
InitializeFirebase ==
    /\ pc = "init_firebase"
    /\ \E lib \in LibOutcomes, rnd \in RandomInts :
         LET r == initialize_firebase(FIREBASE_CONFIG, AUTH_TOKEN, lib, rnd)
         IN  /\ errors' = IF r.error THEN errors \cup {INIT_FAILED} ELSE errors
             /\ IF Len(r.ret) = 2
                THEN /\ db' = r.ret[1]
                     /\ USER_ID' = r.ret[2]
                     /\ pc' = "running"
                ELSE /\ pc' = "crashed"
                     /\ UNCHANGED << db, USER_ID >>
    /\ UNCHANGED << firebase_config_env, FIREBASE_CONFIG, AUTH_TOKEN, store,
                    session_state, call, sentiment_vars >>

(***************************************************************************)
(* 2.  The Firestore store                                                 *)
(*                                                                         *)
(* products maps a document id to the document ("None": no document);      *)
(* reviews maps a product id to its reviews subcollection, in the order    *)
(* stream() yields them; clock is the server's time, the value of          *)
(* SERVER_TIMESTAMP at the next write.                                     *)
(***************************************************************************)
ProductIds == 1..MaxProducts

NoDoc == [name |-> "None", price |-> 0, description |-> "None",
          image_url |-> "None", created_by |-> "None", created_at |-> 0]

Exists(doc) == doc.name # "None"

EmptyStore ==
    [products |-> [i \in ProductIds |-> NoDoc],
     reviews  |-> [i \in ProductIds |-> << >>],
     clock    |-> 1]

\* a store holding two products written earlier, the first with two reviews
SeededStore ==
    [products |-> [i \in ProductIds |->
        IF i = 1 THEN [name |-> "Mug", price |-> 4999, description |-> "A mug",
                       image_url |-> "https://placehold.co/400x300",
                       created_by |-> "anonymous_1000", created_at |-> 1]
        ELSE IF i = 2 THEN [name |-> "Pen", price |-> 100, description |-> "A pen",
                       image_url |-> "https://placehold.co/400x300",
                       created_by |-> "anonymous_9999", created_at |-> 2]
        ELSE NoDoc],
     reviews  |-> [i \in ProductIds |->
        IF i = 1 THEN << [reviewer |-> "Anonymous", text |-> <<"b","a","d">>,
                          sentiment |-> "neutral", emoji |-> "U+1F610",
                          created_by |-> "anonymous_1000", created_at |-> 3],
                         [reviewer |-> "Anonymous", text |-> <<"l","o","v","e">>,
                          sentiment |-> "neutral", emoji |-> "U+1F610",
                          created_by |-> "anonymous_9999", created_at |-> 4] >>
        ELSE << >>],
     clock    |-> 5]

InitialStores == { EmptyStore, SeededStore }

(***************************************************************************)
(* 3.  Data operations (lines 125-194)                                     *)
(***************************************************************************)
\* The names bound in the module's global namespace when a function of the
\* module runs: the imports of lines 1-4 and the module's own globals.
\* The imports of lines 67-71 are local to initialize_firebase.
ModuleGlobals ==
    { "st", "json", "random", "Client", "DocumentSnapshot",
      "predict_sentiment", "APP_ID", "FIREBASE_CONFIG", "AUTH_TOKEN",
      "initialize_firebase", "db", "USER_ID", "PRODUCTS_COLLECTION",
      "add_product", "get_all_products", "add_review",
      "product_display_page", "add_product_page", "main" }

\* looking a global name up: an unbound one raises NameError
NameBound(name) == name \in ModuleGlobals

\* float(s) for the strings a price is given as: whether it parses, and the
\* value in hundredths
PriceStrings == { "abc", "0", "49.99" }
IsFloatLiteral(s) == s \in { "0", "49.99" }
FloatValue(s) == IF s = "49.99" THEN 4999 ELSE 0

DB_NOT_INITIALIZED == "Database not initialized."

Ok(ret, st) == [ret |-> ret, store |-> st, errors |-> {}]
Failed(ret, msg) == [ret |-> ret, store |-> store, errors |-> {msg}]


\* add_product with line 129 returning True
add_product_guard_returns_true(name, price, description, image_url, accepts, id) ==
    IF db = "None" THEN Failed("True", DB_NOT_INITIALIZED)
    ELSE IF ~IsFloatLiteral(price)
         THEN Failed("False", "Error adding product: ValueError")
    ELSE IF ~NameBound("firestore")
         THEN Failed("False", "Error adding product: NameError")
    ELSE IF ~accepts
         THEN Failed("False", "Error adding product: store error")
    ELSE LET product_data ==
               [name |-> name, price |-> FloatValue(price),
                description |-> description, image_url |-> image_url,
                created_by |-> USER_ID, created_at |-> store.clock]
         IN  Ok("True", [store EXCEPT !.products[id] = product_data,
                                      !.clock = @ + 1])

\* add_product (lines 125-144).  accepts: whether the store takes the write;
\* id: the document id Firestore generates.  The dict of lines 131-138 is
\* evaluated in order, so float(price) comes before firestore.SERVER_TIMESTAMP.
add_product(name, price, description, image_url, accepts, id) ==
    IF db = "None" THEN Failed("False", DB_NOT_INITIALIZED)
    ELSE IF ~IsFloatLiteral(price)
         THEN Failed("False", "Error adding product: ValueError")
    ELSE IF ~NameBound("firestore")
         THEN Failed("False", "Error adding product: NameError")
    ELSE IF ~accepts
         THEN Failed("False", "Error adding product: store error")
    ELSE LET product_data ==
               [name |-> name, price |-> FloatValue(price),
                description |-> description, image_url |-> image_url,
                created_by |-> USER_ID, created_at |-> store.clock]
         IN  Ok("True", [store EXCEPT !.products[id] = product_data,
                                      !.clock = @ + 1])

\* the documents of the collection in the order stream() yields them (by id),
\* each with its id and its reviews, as lines 155-164 build them
RECURSIVE StreamFrom(_, _)
StreamFrom(st, i) ==
    IF i > MaxProducts THEN << >>
    ELSE IF Exists(st.products[i])
         THEN << [id |-> i, name |-> st.products[i].name,
                  price |-> st.products[i].price,
                  description |-> st.products[i].description,
                  image_url |-> st.products[i].image_url,
                  created_by |-> st.products[i].created_by,
                  created_at |-> st.products[i].created_at,
                  reviews |-> st.reviews[i]] >>
              \o StreamFrom(st, i + 1)
         ELSE StreamFrom(st, i + 1)

\* get_all_products (lines 146-170).  reads_ok: whether every stream() read
\* of the store succeeds.
get_all_products(reads_ok) ==
    IF db = "None" THEN [ret |-> << >>, errors |-> {}]
    ELSE IF ~reads_ok
         THEN [ret |-> << >>, errors |-> {"Error fetching products"}]
    ELSE [ret |-> StreamFrom(store, 1), errors |-> {}]

\* add_review (lines 172-194)
add_review(product_id, reviewer_name, text, accepts) ==
    IF db = "None" THEN Failed("False", DB_NOT_INITIALIZED)
    ELSE LET p == predict_sentiment(text)
         IN  IF ~NameBound("firestore")
             THEN Failed("False", "Error adding review: NameError")
             ELSE IF ~accepts
             THEN Failed("False", "Error adding review: store error")
             ELSE LET review_data ==
                        [reviewer |-> reviewer_name, text |-> text,
                         sentiment |-> p[1], emoji |-> p[2],
                         created_by |-> USER_ID, created_at |-> store.clock]
                  IN  Ok("True",
                         [store EXCEPT !.reviews[product_id] = Append(@, review_data),
                                       !.clock = @ + 1])

(***************************************************************************)
(* 4.  Pages (lines 198-320)                                               *)
(***************************************************************************)
Sessions == { "s1", "s2" }

\* st.session_state of a new session.  refresh_products "unset": the key is
\* not in session_state.  products is read (line 213) only after line 210
\* assigned it, so its value before that is never seen.
NewSession == [page |-> "none", refresh_products |-> "unset", products |-> << >>]

\* list.sort(key=lambda x: x.get('created_at', 0), reverse=True): stable,
\* newest first
RECURSIVE InsertDesc(_, _)
InsertDesc(sorted, x) ==
    IF sorted = << >> THEN << x >>
    ELSE IF Head(sorted).created_at >= x.created_at
         THEN << Head(sorted) >> \o InsertDesc(Tail(sorted), x)
         ELSE << x >> \o sorted

RECURSIVE SortDescFrom(_, _, _)
SortDescFrom(list, i, sorted) ==
    IF i > Len(list) THEN sorted
    ELSE SortDescFrom(list, i + 1, InsertDesc(sorted, list[i]))

SortDesc(list) == SortDescFrom(list, 1, << >>)

\* what a complete run of the loop of lines 220-282 leaves in the cached
\* list: the products sorted (line 220) and each one's reviews sorted (246)
SortPage(products) ==
    LET sorted == SortDesc(products)
    IN  [i \in 1..Len(sorted) |->
            [sorted[i] EXCEPT !.reviews = SortDesc(@)]]

\* str.strip() of a review text
RECURSIVE LStrip(_)
LStrip(s) == IF s # << >> /\ Head(s) = " " THEN LStrip(Tail(s)) ELSE s
RECURSIVE RStrip(_)
RStrip(s) ==
    IF s # << >> /\ s[Len(s)] = " " THEN RStrip(SubSeq(s, 1, Len(s) - 1)) ELSE s
Strip(s) == RStrip(LStrip(s))

\* the review texts submitted: blank, positive, negative
ReviewTexts ==
    { << " " >>,
      <<"l","o","v","e"," ","B","E","S","T">>,
      <<"b","a","d"," ","P","o","o","r">> }

Names == { "", "Mug" }
Descriptions == { "", "A mug" }
ImageUrls == { "https://placehold.co/400x300" }
Reviewers == { "Anonymous" }

NoCall == [n |-> 0, op |-> "none", by |-> "none", product_id |-> 0,
           text |-> << >>, price |-> "", accepts |-> FALSE,
           ret |-> "None", products |-> << >>]

\* the record of the next call: n alternates, so that a call repeated with
\* the same arguments and result is still a change of state
Called(op, by, product_id, text, price, accepts, ret, products) ==
    [n |-> 1 - call.n, op |-> op, by |-> by, product_id |-> product_id,
     text |-> text, price |-> price, accepts |-> accepts,
     ret |-> ret, products |-> products]

\* the messages the module-level script displays on every run
StartupErrors == errors \cap { CONFIG_NOT_FOUND, INIT_FAILED }

\* the ids Firestore may generate for a new document
FreeIds == { i \in ProductIds : ~Exists(store.products[i]) }

\* lines 204-213 with the test of line 208 dropped: every run fetches
page_fetch_every_run(ss, reads_ok) ==
    LET g == get_all_products(reads_ok)
    IN  [fetched |-> TRUE, products |-> g.ret, errors |-> g.errors]

\* the flag after lines 204-211 and the list line 213 reads
page_fetch(ss, reads_ok) ==
    LET flag == IF ss.refresh_products = "unset" THEN "True"
                ELSE ss.refresh_products
        g == get_all_products(reads_ok)
    IN  [fetched  |-> flag = "True",
         products |-> IF flag = "True" THEN g.ret ELSE ss.products,
         errors   |-> IF flag = "True" THEN g.errors ELSE {}]

\* product_display_page (lines 198-282) in a run with no form submitted:
\* the session opens the Products page or the script reruns
ProductsPage(s) ==
    /\ pc = "running"
    /\ \E reads_ok \in BOOLEAN :
         LET f == page_fetch(session_state[s], reads_ok)
         IN  /\ session_state' = [session_state EXCEPT ![s] =
                    [page |-> "Products", refresh_products |-> "False",
                     products |-> SortPage(f.products)]]
             /\ call' = IF f.fetched
                        THEN Called("get_all_products", s, 0, << >>, "",
                                    reads_ok, "list", f.products)
                        ELSE call
             /\ errors' = StartupErrors \cup f.errors
    /\ UNCHANGED << startup_vars, store, sentiment_vars >>

\* product_display_page in the run a review form's submit button starts
\* (lines 263-280).  The form exists only if the session's last run drew the
\* Products page with a product on it, and that run left the flag False, so
\* this run reads the cached list.  After a successful add_review the flag is
\* True and st.experimental_rerun() starts the run that ProductsPage models.
SubmitReview(s) ==
    /\ pc = "running"
    /\ session_state[s].page = "Products"
    /\ session_state[s].refresh_products = "False"
    /\ session_state[s].products # << >>
    /\ \E i \in 1..Len(session_state[s].products), reviewer_name \in Reviewers,
          text \in ReviewTexts, accepts \in BOOLEAN :
         LET product_id == session_state[s].products[i].id
             r == add_review(product_id, reviewer_name, text, accepts)
         IN  /\ Len(store.reviews[product_id]) < MaxReviews
             /\ IF Strip(text) = << >>
                THEN /\ errors' = StartupErrors
                                    \cup {"Please write a review before submitting."}
                     /\ UNCHANGED << store, call, session_state >>
                ELSE /\ store' = r.store
                     /\ call' = Called("add_review", s, product_id, text, "",
                                       accepts, r.ret, << >>)
                     /\ IF r.ret = "True"
                        THEN /\ session_state' = [session_state EXCEPT
                                    ![s].refresh_products = "True"]
                             /\ errors' = StartupErrors
                        ELSE /\ errors' = StartupErrors \cup r.errors
                                            \cup {"Failed to submit review."}
                             /\ UNCHANGED session_state
    /\ UNCHANGED << startup_vars, sentiment_vars >>

\* add_product_page (lines 284-303) in a run with no form submitted
AddProductPage(s) ==
    /\ pc = "running"
    /\ session_state' = [session_state EXCEPT ![s].page = "Add Product"]
    /\ errors' = IF db = "None"
                 THEN StartupErrors
                        \cup {"Cannot add products: Database is not connected."}
                 ELSE StartupErrors
    /\ UNCHANGED << startup_vars, store, call, sentiment_vars >>

\* add_product_page in the run the form's submit button starts (lines
\* 305-320).  The form exists only if the session's last run drew it, which
\* line 289 allows only with a database.
SubmitProduct(s) ==
    /\ pc = "running"
    /\ session_state[s].page = "Add Product"
    /\ db # "None"
    /\ FreeIds # {}
    /\ \E name \in Names, price_str \in PriceStrings,
          description \in Descriptions, image_url \in ImageUrls :
         IF ~IsFloatLiteral(price_str)
         THEN /\ errors' = StartupErrors
                    \cup {"Invalid price format. Please enter a valid number."}
              /\ UNCHANGED << store, call, session_state >>
         ELSE IF name = "" \/ description = "" \/ FloatValue(price_str) <= 0
         THEN /\ errors' = StartupErrors
                    \cup {"Please fill in all fields correctly (Name, Description, Price > 0)."}
              /\ UNCHANGED << store, call, session_state >>
         ELSE \E accepts \in BOOLEAN, id \in FreeIds :
                LET r == add_product(name, price_str, description, image_url,
                                     accepts, id)
                IN  /\ store' = r.store
                    /\ call' = Called("add_product", s, 0, << >>, price_str,
                                      accepts, r.ret, << >>)
                    /\ IF r.ret = "True"
                       THEN /\ session_state' = [session_state EXCEPT
                                   ![s].refresh_products = "True"]
                            /\ errors' = StartupErrors
                       ELSE /\ errors' = StartupErrors \cup r.errors
                                           \cup {"Failed to add product to Firestore."}
                            /\ UNCHANGED session_state
    /\ UNCHANGED << startup_vars, sentiment_vars >>

(***************************************************************************)
(* 5.  The data operations called as functions of the module               *)
(***************************************************************************)
AddProduct ==
    /\ pc = "running"
    /\ FreeIds # {}
    /\ \E name \in Names \ {""}, price \in PriceStrings,
          description \in Descriptions \ {""}, image_url \in ImageUrls,
          accepts \in BOOLEAN, id \in FreeIds :
         LET r == add_product(name, price, description, image_url, accepts, id)
         IN  /\ store' = r.store
             /\ call' = Called("add_product", "direct", 0, << >>, price,
                               accepts, r.ret, << >>)
             /\ errors' = StartupErrors \cup r.errors
    /\ UNCHANGED << startup_vars, session_state, sentiment_vars >>

GetAllProducts ==
    /\ pc = "running"
    /\ \E reads_ok \in BOOLEAN :
         LET r == get_all_products(reads_ok)
         IN  /\ call' = Called("get_all_products", "direct", 0, << >>, "",
                               reads_ok, "list", r.ret)
             /\ errors' = StartupErrors \cup r.errors
    /\ UNCHANGED << startup_vars, store, session_state, sentiment_vars >>

AddReview ==
    /\ pc = "running"
    /\ \E product_id \in ProductIds, reviewer_name \in Reviewers,
          text \in ReviewTexts \cup { << >> }, accepts \in BOOLEAN :
         LET r == add_review(product_id, reviewer_name, text, accepts)
         IN  /\ Len(store.reviews[product_id]) < MaxReviews
             /\ store' = r.store
             /\ call' = Called("add_review", "direct", product_id, text, "",
                               accepts, r.ret, << >>)
             /\ errors' = StartupErrors \cup r.errors
    /\ UNCHANGED << startup_vars, session_state, sentiment_vars >>

(***************************************************************************)
(* 6.  Specifications                                                      *)
(***************************************************************************)
Init ==
    /\ firebase_config_env \in EnvConfigs
    /\ pc = "load_config"
    /\ FIREBASE_CONFIG = "None"
    /\ AUTH_TOKEN = "None"
    /\ db = "unbound"
    /\ USER_ID = "unbound"
    /\ errors = {}
    /\ store \in InitialStores
    /\ session_state = [s \in Sessions |-> NewSession]
    /\ call = NoCall
    /\ review_text = << >>
    /\ prediction = << >>

Next ==
    \/ LoadConfig
    \/ InitializeFirebase
    \/ \E s \in Sessions : ProductsPage(s)
    \/ \E s \in Sessions : SubmitReview(s)
    \/ \E s \in Sessions : AddProductPage(s)
    \/ \E s \in Sessions : SubmitProduct(s)
    \/ AddProduct
    \/ GetAllProducts
    \/ AddReview

Spec == Init /\ [][Next]_vars

\* predict_sentiment applied to every text of Texts
InitSentiment ==
    /\ firebase_config_env = "absent"
    /\ pc = "load_config"
    /\ FIREBASE_CONFIG = "None"
    /\ AUTH_TOKEN = "None"
    /\ db = "unbound"
    /\ USER_ID = "unbound"
    /\ errors = {}
    /\ store = EmptyStore
    /\ session_state = [s \in Sessions |-> NewSession]
    /\ call = NoCall
    /\ review_text \in Texts
    /\ prediction = << >>

PredictSentiment ==
    /\ prediction = << >>
    /\ prediction' = predict_sentiment(review_text)
    /\ UNCHANGED << startup_vars, errors, store, session_state, call,
                    review_text >>

NextSentiment == PredictSentiment

SpecSentiment == InitSentiment /\ [][NextSentiment]_vars

(***************************************************************************)
(* 7.  Properties                                                          *)
(***************************************************************************)
StartupDone == pc \notin { "load_config", "init_firebase" }

\* C1: when __firebase_config is absent or is not valid JSON, the error is
\* displayed and start-up completes with db and USER_ID None: no exception
\* escapes line 122.
C1_StartupCompletesWithoutPersistence ==
    (firebase_config_env \in { "absent", "not json" } /\ StartupDone)
        => /\ pc = "running"
           /\ db = "None"
           /\ USER_ID = "None"
           /\ CONFIG_NOT_FOUND \in errors

\* a step that is a call of op
CallStep(op) == call'.n # call.n /\ call'.op = op

\* C2: every add_product call with a database, a numeric price and a store
\* that accepts the write returns True and adds exactly one document, which
\* holds name, price, description, image_url, created_by and created_at.
C2_AddProductAddsOneDocument ==
    [][ ( /\ CallStep("add_product")
          /\ db = "client"
          /\ IsFloatLiteral(call'.price)
          /\ call'.accepts )
        => /\ call'.ret = "True"
           /\ \E id \in ProductIds :
                /\ ~Exists(store.products[id])
                /\ Exists(store'.products[id])
                /\ store'.products[id].name \in Names
                /\ store'.products[id].price = FloatValue(call'.price)
                /\ store'.products[id].description \in Descriptions
                /\ store'.products[id].image_url \in ImageUrls
                /\ store'.products[id].created_by = USER_ID
                /\ store'.products[id].created_at = store.clock
                /\ \A other \in ProductIds \ {id} :
                     store'.products[other] = store.products[other]
           /\ store'.reviews = store.reviews ]_vars

\* C3: every add_review call with a database and a store that accepts the
\* write returns True and adds exactly one review under product_id, whose
\* sentiment and emoji are predict_sentiment(review_text); the reviews of
\* every other product are unchanged.
C3_AddReviewAddsOneReview ==
    [][ ( /\ CallStep("add_review")
          /\ db = "client"
          /\ call'.accepts )
        => /\ call'.ret = "True"
           /\ LET old == store.reviews[call'.product_id]
                  new == store'.reviews[call'.product_id]
              IN  /\ Len(new) = Len(old) + 1
                  /\ SubSeq(new, 1, Len(old)) = old
                  /\ new[Len(new)].text = call'.text
                  /\ << new[Len(new)].sentiment, new[Len(new)].emoji >>
                       = predict_sentiment(call'.text)
           /\ \A other \in ProductIds \ {call'.product_id} :
                store'.reviews[other] = store.reviews[other]
           /\ store'.products = store.products ]_vars

\* C4: with db None, add_product and add_review return False,
\* get_all_products returns the empty list, and no step changes the store.
C4_NoDatabaseFailsAsValue ==
    /\ [] ( db = "None" =>
              /\ call.op \in { "add_product", "add_review" } => call.ret = "False"
              /\ call.op = "get_all_products" => call.products = << >> )
    /\ [][ db = "None" => (store' = store /\ pc' = "running") ]_vars

\* C4 happens: add_review was called with no database and answered False.
C4_Witness ==
    /\ db = "None"
    /\ call.op = "add_review"
    /\ call.ret = "False"
    /\ DB_NOT_INITIALIZED \in errors

\* the positions of text at which sub occurs
Occurrences(text, sub) ==
    { i \in 1..Len(text) :
        /\ i + Len(sub) - 1 <= Len(text)
        /\ SubSeq(text, i, i + Len(sub) - 1) = sub }

RECURSIVE TotalOccurrences(_, _, _)
TotalOccurrences(text, keywords, i) ==
    IF i > Len(keywords) THEN 0
    ELSE Cardinality(Occurrences(text, keywords[i]))
           + TotalOccurrences(text, keywords, i + 1)

\* C5: with pos and neg the numbers of occurrences of the positive and the
\* negative keywords in the lower-cased text, the result is positive with
\* U+1F60A exactly when pos > neg + 1, negative with U+1F61E exactly when
\* neg > pos + 1, and neutral with U+1F610 otherwise, the empty text included.
C5_SentimentByKeywordCounts ==
    prediction # << >> =>
        LET pos == TotalOccurrences(Lower(review_text), positive_keywords, 1)
            neg == TotalOccurrences(Lower(review_text), negative_keywords, 1)
        IN  /\ prediction = << "positive", "U+1F60A" >> <=> pos > neg + 1
            /\ prediction = << "negative", "U+1F61E" >> <=> neg > pos + 1
            /\ prediction = << "neutral", "U+1F610" >>
                 <=> ~(pos > neg + 1) /\ ~(neg > pos + 1)
            /\ review_text = << >> => prediction[1] = "neutral"

\* C5 happens: a text with capitals and a negative keyword was classified
\* positive.
C5_Witness ==
    /\ prediction # << >>
    /\ prediction[1] = "positive"
    /\ Lower(review_text) # review_text
    /\ TotalOccurrences(Lower(review_text), negative_keywords, 1) > 0

\* a step in which session s added a product or a review successfully
SuccessfulAddBy(s) ==
    /\ call'.n # call.n
    /\ call'.op \in { "add_product", "add_review" }
    /\ call'.by = s
    /\ call'.ret = "True"

\* C6: after a run of the Products page whose fetch failed, the session's
\* flag is False and its list is empty; and while a session's flag is False,
\* every step that is not a successful add_product or add_review of that
\* session leaves its flag False and its cached list as it is, and is no
\* get_all_products call of that session.
C6_NoRefetchUntilOwnWrite ==
    /\ [] ( \A s \in Sessions :
              ( /\ call.op = "get_all_products"
                /\ call.by = s
                /\ db = "client"
                /\ ~call.accepts )
              => /\ session_state[s].refresh_products = "False"
                 /\ session_state[s].products = << >> )
    /\ [][ \A s \in Sessions :
             ( session_state[s].refresh_products = "False" /\ ~SuccessfulAddBy(s) )
             => /\ session_state'[s].refresh_products = "False"
                /\ session_state'[s].products = session_state[s].products
                /\ ~(CallStep("get_all_products") /\ call'.by = s) ]_vars

\* C6 happens: session s1's fetch failed, so it shows an empty list with its
\* flag False, while the store holds products that session s2 read afterwards.
C6_Witness ==
    /\ db = "client"
    /\ session_state["s1"].page = "Products"
    /\ session_state["s1"].refresh_products = "False"
    /\ session_state["s1"].products = << >>
    /\ "Error fetching products" \notin errors
    /\ call.op = "get_all_products"
    /\ call.by = "s2"
    /\ call.products # << >>

=============================================================================
